---- MODULE Spec2Model ----
(***************************************************************************)
(* Model of media-organizer/frontend/src-tauri/src/lib.rs: the function    *)
(* run(), which configures the GUI builder, runs the setup hook (logger in *)
(* debug builds, backend sidecar in release builds) and blocks in the GUI  *)
(* run loop.  The sidecar is an independent OS process.                    *)
(***************************************************************************)
EXTENDS Naturals, Sequences, FiniteSets

\* Bound on the GUI events dispatched by the run loop in one run.
MaxEvents == 3
\* Bound on the output events the sidecar queues on its output channel.
MaxOutput == 2

VARIABLES
    debug_assertions, \* build configuration: cfg!(debug_assertions)
    pc,               \* position of the main thread inside run()
    plugins,          \* plugins registered with the application
    logLevel,         \* level of the attached logger plugin, "none" if absent
    setupHook,        \* a setup closure has been handed to the builder
    buildResult,      \* outcome of building the application inside .run()
    attachResult,     \* outcome of app.handle().plugin(logger)
    cmdResult,        \* outcome of shell().sidecar("media-organizer-backend")
    spawnResult,      \* outcome of sidecar.spawn()
    setupResult,      \* outcome of the setup closure
    spawnAttempts,    \* number of calls of spawn()
    spawned,          \* number of sidecar processes created
    holdsChild,       \* the binding _child is alive
    holdsRx,          \* the binding _rx is alive
    rxPending,        \* output events queued on the channel behind _rx
    logEvents,        \* records handed to the log facade
    runLoop,          \* state of the GUI run loop
    events,           \* GUI events dispatched by the run loop
    panicMsg,         \* message of the panic that ended the process
    child             \* state of the sidecar OS process

shellVars == <<debug_assertions, pc, plugins, logLevel, setupHook, buildResult,
               attachResult, cmdResult, spawnResult, setupResult,
               spawnAttempts, spawned, holdsChild, holdsRx, logEvents,
               runLoop, events, panicMsg>>

vars == <<debug_assertions, pc, plugins, logLevel, setupHook, buildResult,
          attachResult, cmdResult, spawnResult, setupResult, spawnAttempts,
          spawned, holdsChild, holdsRx, rxPending, logEvents, runLoop, events,
          panicMsg, child>>

Outcome == {"ok", "err"}

SidecarName == "media-organizer-backend"
MsgSidecarCommand == "Failed to create sidecar command"
MsgSidecarSpawn == "Failed to spawn backend sidecar"
MsgStarted == "Backend sidecar started"
MsgRun == "error while running tauri application"
\* A setup error is reported by the framework, either through the Err of
\* .run() (and the expect on it) or by its own panic.
MsgSetup == {"error while running tauri application", "Failed to setup app"}

Init ==
    /\ debug_assertions \in BOOLEAN
    /\ pc = "start"
    /\ plugins = {}
    /\ logLevel = "none"
    /\ setupHook = FALSE
    /\ buildResult = "none"
    /\ attachResult = "none"
    /\ cmdResult = "none"
    /\ spawnResult = "none"
    /\ setupResult = "none"
    /\ spawnAttempts = 0
    /\ spawned = 0
    /\ holdsChild = FALSE
    /\ holdsRx = FALSE
    /\ rxPending = 0
    /\ logEvents = <<>>
    /\ runLoop = "not_started"
    /\ events = 0
    /\ panicMsg = "none"
    /\ child = "none"

\* A panic on the main thread: the bindings of the unwound frames are dropped
\* and the process ends.
Panic(msg) ==
    /\ pc' = "panicked"
    /\ panicMsg' = msg
    /\ holdsChild' = FALSE
    /\ holdsRx' = FALSE
    /\ rxPending' = 0

\* #[cfg(not(debug_assertions))]: the sidecar block exists in release builds only.
SidecarCompiledAlways == TRUE

SidecarCompiled == ~debug_assertions

\* tauri::Builder::default()
BuilderDefault ==
    /\ pc = "start"
    /\ pc' = "plugin"
    /\ UNCHANGED <<debug_assertions, plugins, logLevel, setupHook, buildResult,
                   attachResult, cmdResult, spawnResult, setupResult,
                   spawnAttempts, spawned, holdsChild, holdsRx, rxPending,
                   logEvents, runLoop, events, panicMsg, child>>

PluginShellSkipped ==
    /\ pc = "plugin"
    /\ pc' = "setup"
    /\ UNCHANGED <<debug_assertions, plugins, logLevel, setupHook, buildResult,
                   attachResult, cmdResult, spawnResult, setupResult,
                   spawnAttempts, spawned, holdsChild, holdsRx, rxPending,
                   logEvents, runLoop, events, panicMsg, child>>

\* .plugin(tauri_plugin_shell::init())
PluginShell ==
    /\ pc = "plugin"
    /\ pc' = "setup"
    /\ plugins' = plugins \cup {"shell"}
    /\ UNCHANGED <<debug_assertions, logLevel, setupHook, buildResult,
                   attachResult, cmdResult, spawnResult, setupResult,
                   spawnAttempts, spawned, holdsChild, holdsRx, rxPending,
                   logEvents, runLoop, events, panicMsg, child>>

\* .setup(|app| { ... }): the closure is stored, not yet run
SetupRegister ==
    /\ pc = "setup"
    /\ pc' = "run"
    /\ setupHook' = TRUE
    /\ UNCHANGED <<debug_assertions, plugins, logLevel, buildResult,
                   attachResult, cmdResult, spawnResult, setupResult,
                   spawnAttempts, spawned, holdsChild, holdsRx, rxPending,
                   logEvents, runLoop, events, panicMsg, child>>

\* .run(tauri::generate_context!()): the application is built; an Err is
\* turned into a panic by .expect(...).  On success the setup closure runs.
RunBuild ==
    /\ pc = "run"
    /\ \E r \in Outcome :
        /\ buildResult' = r
        /\ IF r = "ok"
             THEN /\ pc' = "setup_logger"
                  /\ UNCHANGED <<panicMsg, holdsChild, holdsRx, rxPending>>
             ELSE Panic(MsgRun)
    /\ UNCHANGED <<debug_assertions, plugins, logLevel, setupHook,
                   attachResult, cmdResult, spawnResult, setupResult,
                   spawnAttempts, spawned, logEvents, runLoop, events, child>>

\* Position after the logger step of the setup closure.
AfterLogger == IF SidecarCompiled THEN "sidecar_command" ELSE "setup_ok"

AttachLoggerSwallow ==
    /\ pc = "setup_logger"
    /\ IF debug_assertions
         THEN \E r \in Outcome :
                /\ attachResult' = r
                /\ pc' = AfterLogger
                /\ IF r = "ok"
                     THEN /\ plugins' = plugins \cup {"log"}
                          /\ logLevel' = "Info"
                     ELSE UNCHANGED <<plugins, logLevel>>
                /\ UNCHANGED <<setupResult, panicMsg, holdsChild, holdsRx,
                               rxPending>>
         ELSE /\ pc' = AfterLogger
              /\ UNCHANGED <<attachResult, plugins, logLevel, setupResult,
                             panicMsg, holdsChild, holdsRx, rxPending>>
    /\ UNCHANGED <<debug_assertions, setupHook, buildResult, cmdResult,
                   spawnResult, spawnAttempts, spawned, logEvents, runLoop,
                   events, child>>

\* if cfg!(debug_assertions) { app.handle().plugin(log at Info)?; }
AttachLogger ==
    /\ pc = "setup_logger"
    /\ IF debug_assertions
         THEN \E r \in Outcome :
                /\ attachResult' = r
                /\ IF r = "ok"
                     THEN /\ plugins' = plugins \cup {"log"}
                          /\ logLevel' = "Info"
                          /\ pc' = AfterLogger
                          /\ UNCHANGED <<setupResult, panicMsg, holdsChild,
                                         holdsRx, rxPending>>
                     ELSE /\ setupResult' = "err"
                          /\ \E m \in MsgSetup : Panic(m)
                          /\ UNCHANGED <<plugins, logLevel>>
         ELSE /\ pc' = AfterLogger
              /\ UNCHANGED <<attachResult, plugins, logLevel, setupResult,
                             panicMsg, holdsChild, holdsRx, rxPending>>
    /\ UNCHANGED <<debug_assertions, setupHook, buildResult, cmdResult,
                   spawnResult, spawnAttempts, spawned, logEvents, runLoop,
                   events, child>>

SidecarCommandUnchecked ==
    /\ pc = "sidecar_command"
    /\ \E r \in Outcome :
        /\ cmdResult' = r
        /\ pc' = "sidecar_spawn"
        /\ UNCHANGED <<panicMsg, holdsChild, holdsRx, rxPending>>
    /\ UNCHANGED <<debug_assertions, plugins, logLevel, setupHook, buildResult,
                   attachResult, spawnResult, setupResult, spawnAttempts,
                   spawned, logEvents, runLoop, events, child>>

\* app.shell().sidecar("media-organizer-backend").expect(...)
SidecarCommand ==
    /\ pc = "sidecar_command"
    /\ \E r \in Outcome :
        /\ cmdResult' = r
        /\ IF r = "ok"
             THEN /\ pc' = "sidecar_spawn"
                  /\ UNCHANGED <<panicMsg, holdsChild, holdsRx, rxPending>>
             ELSE Panic(MsgSidecarCommand)
    /\ UNCHANGED <<debug_assertions, plugins, logLevel, setupHook, buildResult,
                   attachResult, spawnResult, setupResult, spawnAttempts,
                   spawned, logEvents, runLoop, events, child>>

SidecarSpawnUnchecked ==
    /\ pc = "sidecar_spawn"
    /\ spawnAttempts' = spawnAttempts + 1
    /\ \E r \in Outcome :
        /\ spawnResult' = r
        /\ pc' = "log_started"
        /\ IF r = "ok"
             THEN /\ spawned' = spawned + 1
                  /\ child' = "running"
                  /\ holdsChild' = TRUE
                  /\ holdsRx' = TRUE
             ELSE UNCHANGED <<spawned, child, holdsChild, holdsRx>>
        /\ UNCHANGED <<panicMsg, rxPending>>
    /\ UNCHANGED <<debug_assertions, plugins, logLevel, setupHook, buildResult,
                   attachResult, cmdResult, setupResult, logEvents, runLoop,
                   events>>

SidecarSpawnRetry ==
    /\ pc = "sidecar_spawn"
    /\ spawnAttempts < 3
    /\ spawnAttempts' = spawnAttempts + 1
    /\ \E r \in Outcome :
        /\ spawnResult' = r
        /\ IF r = "ok"
             THEN /\ spawned' = spawned + 1
                  /\ child' = "running"
                  /\ holdsChild' = TRUE
                  /\ holdsRx' = TRUE
                  /\ pc' = "log_started"
             ELSE UNCHANGED <<spawned, child, holdsChild, holdsRx, pc>>
        /\ UNCHANGED <<panicMsg, rxPending>>
    /\ UNCHANGED <<debug_assertions, plugins, logLevel, setupHook, buildResult,
                   attachResult, cmdResult, setupResult, logEvents, runLoop,
                   events>>

\* let (mut _rx, _child) = sidecar.spawn().expect(...)
SidecarSpawn ==
    /\ pc = "sidecar_spawn"
    /\ spawnAttempts' = spawnAttempts + 1
    /\ \E r \in Outcome :
        /\ spawnResult' = r
        /\ IF r = "ok"
             THEN /\ spawned' = spawned + 1
                  /\ child' = "running"
                  /\ holdsChild' = TRUE
                  /\ holdsRx' = TRUE
                  /\ pc' = "log_started"
                  /\ UNCHANGED <<panicMsg, rxPending>>
             ELSE /\ Panic(MsgSidecarSpawn)
                  /\ UNCHANGED <<spawned, child>>
    /\ UNCHANGED <<debug_assertions, plugins, logLevel, setupHook, buildResult,
                   attachResult, cmdResult, setupResult, logEvents, runLoop,
                   events>>

\* log::info!("Backend sidecar started")
LogStarted ==
    /\ pc = "log_started"
    /\ logEvents' = Append(logEvents, MsgStarted)
    /\ pc' = "block_end"
    /\ UNCHANGED <<debug_assertions, plugins, logLevel, setupHook, buildResult,
                   attachResult, cmdResult, spawnResult, setupResult,
                   spawnAttempts, spawned, holdsChild, holdsRx, rxPending,
                   runLoop, events, panicMsg, child>>

EndSidecarBlockKeep ==
    /\ pc = "block_end"
    /\ pc' = "setup_ok"
    /\ UNCHANGED <<debug_assertions, plugins, logLevel, setupHook, buildResult,
                   attachResult, cmdResult, spawnResult, setupResult,
                   spawnAttempts, spawned, holdsChild, holdsRx, rxPending,
                   logEvents, runLoop, events, panicMsg, child>>

EndSidecarBlockKill ==
    /\ pc = "block_end"
    /\ pc' = "setup_ok"
    /\ holdsChild' = FALSE
    /\ holdsRx' = FALSE
    /\ rxPending' = 0
    /\ child' = IF child = "running" THEN "exited" ELSE child
    /\ UNCHANGED <<debug_assertions, plugins, logLevel, setupHook, buildResult,
                   attachResult, cmdResult, spawnResult, setupResult,
                   spawnAttempts, spawned, logEvents, runLoop, events,
                   panicMsg>>

\* End of the sidecar block: the bindings _child and _rx go out of scope.
\* Dropping the handle does not touch the process.
EndSidecarBlock ==
    /\ pc = "block_end"
    /\ pc' = "setup_ok"
    /\ holdsChild' = FALSE
    /\ holdsRx' = FALSE
    /\ rxPending' = 0
    /\ UNCHANGED <<debug_assertions, plugins, logLevel, setupHook, buildResult,
                   attachResult, cmdResult, spawnResult, setupResult,
                   spawnAttempts, spawned, logEvents, runLoop, events,
                   panicMsg, child>>

\* Ok(()): the setup closure returns and the GUI run loop serves events.
SetupOk ==
    /\ pc = "setup_ok"
    /\ setupResult' = "ok"
    /\ pc' = "event_loop"
    /\ runLoop' = "running"
    /\ UNCHANGED <<debug_assertions, plugins, logLevel, setupHook, buildResult,
                   attachResult, cmdResult, spawnResult, spawnAttempts,
                   spawned, holdsChild, holdsRx, rxPending, logEvents, events,
                   panicMsg, child>>

\* The run loop dispatches one GUI event.
RunEvent ==
    /\ pc = "event_loop"
    /\ runLoop = "running"
    /\ events < MaxEvents
    /\ events' = events + 1
    /\ UNCHANGED <<debug_assertions, pc, plugins, logLevel, setupHook,
                   buildResult, attachResult, cmdResult, spawnResult,
                   setupResult, spawnAttempts, spawned, holdsChild, holdsRx,
                   rxPending, logEvents, runLoop, panicMsg, child>>

\* The GUI signals shutdown: the user closes the application or the runtime
\* requests exit.
ExitRequested ==
    /\ pc = "event_loop"
    /\ runLoop = "running"
    /\ runLoop' = "exited"
    /\ UNCHANGED <<debug_assertions, pc, plugins, logLevel, setupHook,
                   buildResult, attachResult, cmdResult, spawnResult,
                   setupResult, spawnAttempts, spawned, holdsChild, holdsRx,
                   rxPending, logEvents, events, panicMsg, child>>

RuntimeFailRecovered ==
    /\ pc = "event_loop"
    /\ runLoop = "running"
    /\ runLoop' = "failed"
    /\ pc' = "returned"
    /\ UNCHANGED <<debug_assertions, plugins, logLevel, setupHook, buildResult,
                   attachResult, cmdResult, spawnResult, setupResult,
                   spawnAttempts, spawned, holdsChild, holdsRx, rxPending,
                   logEvents, events, panicMsg, child>>

\* .run(...) yields Err while the loop runs; .expect(...) panics.
RuntimeFail ==
    /\ pc = "event_loop"
    /\ runLoop = "running"
    /\ runLoop' = "failed"
    /\ Panic(MsgRun)
    /\ UNCHANGED <<debug_assertions, plugins, logLevel, setupHook, buildResult,
                   attachResult, cmdResult, spawnResult, setupResult,
                   spawnAttempts, spawned, logEvents, events, child>>

RunReturnEarly ==
    /\ pc = "event_loop"
    /\ runLoop \in {"running", "exited"}
    /\ pc' = "returned"
    /\ UNCHANGED <<debug_assertions, plugins, logLevel, setupHook, buildResult,
                   attachResult, cmdResult, spawnResult, setupResult,
                   spawnAttempts, spawned, holdsChild, holdsRx, rxPending,
                   logEvents, runLoop, events, panicMsg, child>>

\* .run(...) yields Ok(()) after the loop has exited; .expect(...) passes and
\* run() returns.
RunReturn ==
    /\ pc = "event_loop"
    /\ runLoop = "exited"
    /\ pc' = "returned"
    /\ UNCHANGED <<debug_assertions, plugins, logLevel, setupHook, buildResult,
                   attachResult, cmdResult, spawnResult, setupResult,
                   spawnAttempts, spawned, holdsChild, holdsRx, rxPending,
                   logEvents, runLoop, events, panicMsg, child>>

\* The sidecar writes output; it is queued while the receiver _rx is alive.
SidecarOutput ==
    /\ child = "running"
    /\ holdsRx
    /\ rxPending < MaxOutput
    /\ rxPending' = rxPending + 1
    /\ UNCHANGED shellVars
    /\ UNCHANGED child

\* The sidecar exits on its own (or is ended by the platform).
SidecarExit ==
    /\ child = "running"
    /\ child' = "exited"
    /\ UNCHANGED shellVars
    /\ UNCHANGED rxPending

\* The sidecar crashes.
SidecarCrash ==
    /\ child = "running"
    /\ child' = "crashed"
    /\ UNCHANGED shellVars
    /\ UNCHANGED rxPending

Next ==
    \/ BuilderDefault
    \/ PluginShell
    \/ SetupRegister
    \/ RunBuild
    \/ AttachLogger
    \/ SidecarCommand
    \/ SidecarSpawn
    \/ LogStarted
    \/ EndSidecarBlock
    \/ SetupOk
    \/ RunEvent
    \/ ExitRequested
    \/ RuntimeFail
    \/ RunReturn
    \/ SidecarOutput
    \/ SidecarExit
    \/ SidecarCrash

Spec == Init /\ [][Next]_vars

\* The main thread goes on once .run(...) has yielded Ok(()).
FairSpec == Spec /\ WF_vars(RunReturn)

Terminated == pc \in {"returned", "panicked"}

SetupPositions == {"setup_logger", "sidecar_command", "sidecar_spawn",
                   "log_started", "block_end", "setup_ok"}

\* C1: in a debug build, a run whose setup step completed has the logger
\* plugin attached at level Info, and in no state of a debug run has a sidecar
\* command been created or a spawn been attempted.
C1_DebugLoggerNoSidecar ==
    debug_assertions =>
        /\ (setupResult = "ok" => ("log" \in plugins /\ logLevel = "Info"))
        /\ cmdResult = "none"
        /\ spawnResult = "none"
        /\ spawnAttempts = 0
        /\ spawned = 0

C1_Witness ==
    debug_assertions /\ setupResult = "ok" /\ runLoop = "running"
        /\ "log" \in plugins

\* C2 as stated: a release run makes exactly one spawn attempt, never attaches
\* the logger, and no run spawns more than one sidecar.
C2_Original ==
    /\ spawned <= 1
    /\ ~debug_assertions =>
        /\ "log" \notin plugins
        /\ (Terminated => spawnAttempts = 1)

\* C2 amended: no run makes more than one spawn attempt or spawns more than
\* one sidecar; a release run never attaches the logger, has made exactly one
\* spawn attempt once its setup step completed, and has made none when it
\* ended on a build failure or a failed sidecar command.
C2_AtMostOneSpawn ==
    /\ spawnAttempts <= 1
    /\ spawned <= spawnAttempts
    /\ ~debug_assertions =>
        /\ "log" \notin plugins
        /\ logLevel = "none"
        /\ attachResult = "none"
        /\ (setupResult = "ok" => spawnAttempts = 1)
        /\ ((buildResult = "err" \/ cmdResult = "err") => spawnAttempts = 0)

C2_Witness ==
    ~debug_assertions /\ pc = "returned" /\ spawnAttempts = 1 /\ spawned = 1

\* C3: after a failed spawn the process has ended in the fatal outcome of
\* that expect, and the run loop was never entered.
C3_SpawnFailureFatal ==
    spawnResult = "err" =>
        /\ pc = "panicked"
        /\ panicMsg = MsgSidecarSpawn
        /\ runLoop = "not_started"
        /\ setupResult # "ok"
        /\ spawned = 0

C3_Witness == spawnResult = "err" /\ pc = "panicked" /\ spawnAttempts = 1

\* C4: when attaching the logger plugin fails, the error leaves the setup
\* step, the process ends fatally, no sidecar command or spawn was attempted
\* and the run loop was never entered.
C4_AttachFailureFatal ==
    attachResult = "err" =>
        /\ setupResult = "err"
        /\ pc = "panicked"
        /\ panicMsg \in MsgSetup
        /\ cmdResult = "none"
        /\ spawnAttempts = 0
        /\ runLoop = "not_started"

C4_Witness == attachResult = "err" /\ pc = "panicked"

\* C5: run() has returned only if the GUI signalled shutdown, and once the
\* GUI has signalled shutdown run() eventually returns.
C5_ReturnsAfterExit ==
    /\ [](pc = "returned" => (runLoop = "exited" /\ setupResult = "ok"))
    /\ (runLoop = "exited" ~> pc = "returned")

C5_Witness == pc = "returned" /\ runLoop = "exited" /\ events > 0

C7_StartupOrder ==
    /\ [] /\ (pc \notin {"start", "plugin"} => "shell" \in plugins)
          /\ (pc \in SetupPositions =>
                (setupHook /\ buildResult = "ok" /\ runLoop = "not_started"))
          /\ (runLoop # "not_started" =>
                (setupResult = "ok" /\ (~debug_assertions => spawned = 1)
                                    /\ (debug_assertions => "log" \in plugins)))
          /\ (spawnAttempts > 0 => "shell" \in plugins)
    /\ [][ /\ (spawnAttempts' # spawnAttempts =>
                ("shell" \in plugins /\ runLoop = "not_started"
                                     /\ runLoop' = "not_started"))
           /\ (plugins' # plugins /\ "log" \in plugins' =>
                ("shell" \in plugins /\ runLoop' = "not_started"))
           /\ (runLoop = "not_started" /\ runLoop' # "not_started" =>
                (pc = "setup_ok" /\ runLoop' = "running")) ]_vars

C7_Witness ==
    ~debug_assertions /\ spawned = 1 /\ runLoop = "running"
        /\ "shell" \in plugins

AnyFailure ==
    \/ buildResult = "err"
    \/ attachResult = "err"
    \/ cmdResult = "err"
    \/ spawnResult = "err"
    \/ runLoop = "failed"

\* C8: after a runtime failure, or any other failure, the process has ended
\* fatally; it takes no further step, retries nothing and never returns.
C8_FailuresFatal ==
    /\ [] /\ (AnyFailure => (pc = "panicked" /\ panicMsg # "none"))
          /\ (runLoop = "failed" => panicMsg = MsgRun)
          /\ (pc = "returned" => ~AnyFailure)
    /\ [][pc = "panicked" => UNCHANGED shellVars]_vars

C8_Witness == runLoop = "failed" /\ pc = "panicked" /\ events > 0

\* C9: a step that ends the sidecar is no step of the shell and changes
\* nothing of the shell; after the sidecar ended the shell spawns nothing;
\* the shell never reads the output channel; no step of the shell changes the
\* state of a spawned sidecar.
C9_NoSupervision ==
    [][ /\ (child # "none" /\ child' # child) => UNCHANGED shellVars
        /\ (child \in {"exited", "crashed"}) =>
                (child' = child /\ spawnAttempts' = spawnAttempts
                                /\ spawned' = spawned)
        /\ (rxPending' < rxPending) => (holdsRx /\ ~holdsRx') ]_vars

C9_Witness ==
    child = "crashed" /\ runLoop = "running" /\ pc = "event_loop"
        /\ events > 0

\* C10: a failed sidecar command ends the process fatally with no spawn
\* attempt, and "Backend sidecar started" is logged only when both the
\* command and the spawn succeeded, and then once.
C10_TwoFallibleSteps ==
    /\ cmdResult = "err" =>
        /\ pc = "panicked"
        /\ panicMsg = MsgSidecarCommand
        /\ spawnAttempts = 0
        /\ spawnResult = "none"
    /\ spawnAttempts > 0 => cmdResult = "ok"
    /\ logEvents # <<>> =>
        /\ logEvents = <<MsgStarted>>
        /\ ~debug_assertions
        /\ cmdResult = "ok"
        /\ spawnResult = "ok"

C10_Witness ==
    cmdResult = "err" /\ pc = "panicked" /\ panicMsg = MsgSidecarCommand
        /\ logEvents = <<>>

====
